---- MODULE Spec2Model ----
(***************************************************************************)
(* Model of the incremental synthesis pipeline of vscode-eloquent:         *)
(* chunkText and ChunkedSynthesizer (src/chunker.ts) together with the     *)
(* part of preprocessForSpeech (src/textPreprocessor.ts) that acts on the  *)
(* modelled alphabet.                                                      *)
(*                                                                         *)
(* A text is a sequence of tokens.  A token is one character (".", " ",    *)
(* "\n", "<", ">"), a run of WordLen letters ("a", "b"), a run of ShortLen  *)
(* letters ("c"), or a narration marker ("<speak>", "</speak>"), so that   *)
(* the length limits of chunkText (60 and 135 characters) are reached by   *)
(* short sequences.  Every await of the source is a point where the other  *)
(* tasks and the caller may run; the code between two awaits is one step.  *)
(***************************************************************************)
EXTENDS Naturals, Sequences, FiniteSets, TLC

VARIABLES
  buffer,         \* ChunkedSynthesizer.buffer
  flushed,        \* ChunkedSynthesizer.flushed
  pendingChange,  \* ChunkedSynthesizer.pendingChange
  aborted,        \* signal.aborted
  prefetchSize,   \* eloquent.prefetchBufferSize as read by stream()
  narrationMode,  \* eloquent.narrationMode as read by stream()
  prodPc,         \* position of produce()
  chunks,         \* produce(): chunks of the current iteration
  readyEnd,       \* produce(): index in chunks at which `ready` ends
  emittedUpTo,    \* produce(): emittedUpTo
  audio,          \* produce(): the buffer held while waiting for space
  synthYielded,   \* buffers the running backend.synthesize call has yielded
  queue,          \* stream(): queue
  producerError,  \* stream(): producerError
  consPc,         \* position of the stream() generator body
  consOutcome,    \* completion the generator carries through its finally
  calls,          \* history: texts passed to backend.synthesize, in order
  enqueued,       \* history: buffers pushed on the queue, in order
  delivered,      \* history: buffers yielded to the caller, in order
  thrown,         \* history: what backend.synthesize threw
  failedSeg,      \* history: index of the segment whose synthesis threw
  nPush,          \* history: number of push() calls
  pushAfterFlush, \* history: a push() came after flush()
  returnedEarly,  \* history: the caller ended the iteration with return()
  unseenChange,   \* history: push() or flush() came after produce() last
                  \* read the buffer
  prodPc2,        \* position of produce() of a second stream() call
  started,        \* StreamingTextToSpeechSession.started
  events,         \* history: statuses fired on the session's onDidChange
  loopPc,         \* position of runPlaybackLoop
  cancelled,      \* the session's token has been cancelled
  activeSession,  \* EloquentProvider.activeSession: this session, another
                  \* one or none
  endFires,       \* history: onDidEndSession fired for this session
  provPaused,     \* EloquentProvider._paused
  playerStopped,  \* AudioPlayer.stopped
  playerPaused,   \* AudioPlayer._paused
  playerProc,     \* AudioPlayer.playbackProcess is not null
  playPc,         \* position of the pending play() call
  playLog         \* history: how each play() call completed

vars == <<buffer, flushed, pendingChange, aborted, prefetchSize, prodPc, chunks,
          readyEnd, emittedUpTo, audio, synthYielded, queue, producerError,
          consPc, consOutcome, calls, enqueued, delivered, thrown, failedSeg,
          nPush, pushAfterFlush, returnedEarly, narrationMode, unseenChange,
          prodPc2, started, events, loopPc, cancelled, activeSession,
          endFires, provPaused, playerStopped, playerPaused, playerProc,
          playPc, playLog>>

----------------------------------------------------------------------------
(* Bounds of the model *)

\* letters in one word token
WordLen == 40
\* push() calls in one behaviour
MaxPush == 3
\* buffers one backend.synthesize call yields at most
MaxYield == 2
\* largest prefetchBufferSize tried
MaxPrefetch == 2
\* letters in the short word token
ShortLen == 18
\* pieces one text of the chunkText specification is built from
MaxPieces == 6

(* Program constants *)

\* chunkText: default of maxChars
MaxChars == 135
\* chunkText: default of firstChunkMax
FirstChunkMax == 60

Words == {"a", "b"}
None == [isError |-> FALSE, text |-> "none"]

\* the fragments push() is called with
Fragments ==
  { <<>>, <<"a", ".", " ">>, <<"b">>, <<"<", "a", ".", " ">>, <<">", "b">> }

\* what a backend may throw: an Error object, or a bare string
Throwables ==
  { [isError |-> TRUE, text |-> "synthesis failed"],
    [isError |-> FALSE, text |-> "raw string error"] }

----------------------------------------------------------------------------
(* Strings *)

\* the narration markers, matched as whole tokens
SpeakOpen == "<speak>"
SpeakClose == "</speak>"
\* the markers in capitals: the patterns carry the i flag
SpeakOpenUpper == "<SPEAK>"
SpeakCloseUpper == "</SPEAK>"
OpenMarkers == {SpeakOpen, SpeakOpenUpper}
CloseMarkers == {SpeakClose, SpeakCloseUpper}
SpeakTokens == OpenMarkers \cup CloseMarkers

\* the space character
IsBlank(t) == t = " "
\* \s, on the alphabet
IsSpace(t) == t \in {" ", "\n"}
\* the characters of [.!?;:\n] that the alphabet holds
IsBoundary(t) == t \in {".", "\n"}

TokLen(t) ==
  IF t \in Words THEN WordLen
  ELSE IF t = "c" THEN ShortLen
  ELSE IF t \in OpenMarkers THEN 7
  ELSE IF t \in CloseMarkers THEN 8
  ELSE 1

RECURSIVE StrLen(_)
StrLen(s) == IF s = <<>> THEN 0 ELSE TokLen(Head(s)) + StrLen(Tail(s))

RECURSIVE TrimStart(_)
TrimStart(s) ==
  IF s # <<>> /\ IsSpace(Head(s)) THEN TrimStart(Tail(s)) ELSE s

RECURSIVE TrimEnd(_)
TrimEnd(s) ==
  IF s # <<>> /\ IsSpace(s[Len(s)])
    THEN TrimEnd(SubSeq(s, 1, Len(s) - 1))
    ELSE s

\* String.prototype.trim
Trim(s) == TrimEnd(TrimStart(s))

----------------------------------------------------------------------------
(* preprocessForSpeech, on the alphabet of the model.  Of its rules these  *)
(* can match a text of letters, ".", " ", "\n", "<", ">" and the narration *)
(* markers: the blockquote rule, the HTML tag rule, the collapse of blank  *)
(* lines and of spaces, and the trims.                                     *)

\* what is left of s after a match of (?:>\s?)* at its head
RECURSIVE EatQuote(_)
EatQuote(s) ==
  IF s # <<>> /\ Head(s) = ">"
    THEN IF Len(s) >= 2 /\ IsSpace(s[2])
           THEN EatQuote(SubSeq(s, 3, Len(s)))
           ELSE EatQuote(Tail(s))
    ELSE s

\* the blockquote rule from the head of s, which is at the start of a line
\* when lineStart holds
RECURSIVE StripQuoteLines(_, _)
StripQuoteLines(s, lineStart) ==
  IF s = <<>> THEN <<>>
  ELSE IF lineStart /\ Head(s) = ">" THEN StripQuoteLines(EatQuote(s), FALSE)
  ELSE <<Head(s)>> \o StripQuoteLines(Tail(s), Head(s) = "\n")

\* /^(?:>\s?)+/gm with ""
StripBlockquote(s) == StripQuoteLines(s, TRUE)

\* index of the first ">" at or after i, 0 when there is none; a narration
\* marker ends in ">"
RECURSIVE FirstClose(_, _)
FirstClose(s, i) ==
  IF i > Len(s) THEN 0
  ELSE IF s[i] = ">" \/ s[i] \in SpeakTokens THEN i
  ELSE FirstClose(s, i + 1)

\* /<[^>]+>/g with "" : a narration marker is a tag; a "<" is one with what
\* follows it up to the next ">", when a character lies between them
RECURSIVE StripTags(_)
StripTags(s) ==
  IF s = <<>> THEN <<>>
  ELSE IF Head(s) \in SpeakTokens THEN StripTags(Tail(s))
  ELSE IF Head(s) = "<" /\ FirstClose(s, 2) > 0
            /\ (FirstClose(s, 2) > 2 \/ s[2] \in SpeakTokens)
    THEN StripTags(SubSeq(s, FirstClose(s, 2) + 1, Len(s)))
    ELSE <<Head(s)>> \o StripTags(Tail(s))

\* /\n{3,}/g with "\n\n"
RECURSIVE CollapseBlankLines(_)
CollapseBlankLines(s) ==
  IF Len(s) < 3 THEN s
  ELSE IF s[1] = "\n" /\ s[2] = "\n" /\ s[3] = "\n"
    THEN CollapseBlankLines(Tail(s))
    ELSE <<Head(s)>> \o CollapseBlankLines(Tail(s))

\* / {2,}/g with " "
RECURSIVE CollapseSpaces(_)
CollapseSpaces(s) ==
  IF Len(s) < 2 THEN s
  ELSE IF IsBlank(s[1]) /\ IsBlank(s[2]) THEN CollapseSpaces(Tail(s))
  ELSE <<Head(s)>> \o CollapseSpaces(Tail(s))

\* index of the first "\n" of s, 0 when there is none
RECURSIVE FirstNewline(_, _)
FirstNewline(s, i) ==
  IF i > Len(s) THEN 0
  ELSE IF s[i] = "\n" THEN i
  ELSE FirstNewline(s, i + 1)

\* split("\n").map((l) => l.trim()).join("\n")
RECURSIVE TrimLines(_)
TrimLines(s) ==
  LET n == FirstNewline(s, 1)
  IN IF n = 0 THEN Trim(s)
     ELSE Trim(SubSeq(s, 1, n - 1)) \o <<"\n">>
            \o TrimLines(SubSeq(s, n + 1, Len(s)))

preprocessForSpeech(text) ==
  Trim(TrimLines(CollapseSpaces(CollapseBlankLines(
         StripTags(StripBlockquote(text))))))

----------------------------------------------------------------------------
(* narrationExtractor *)

\* index of the first token of s at or after i that is one of toks, 0 when
\* there is none
RECURSIVE FirstIndex(_, _, _)
FirstIndex(s, toks, i) ==
  IF i > Len(s) THEN 0
  ELSE IF s[i] \in toks THEN i
  ELSE FirstIndex(s, toks, i + 1)

\* SpeakParts without the skip of an empty content (line 116)
RECURSIVE SpeakPartsKeepingEmpty(_)
SpeakPartsKeepingEmpty(s) ==
  LET o == FirstIndex(s, OpenMarkers, 1)
      c == IF o = 0 THEN 0 ELSE FirstIndex(s, CloseMarkers, o + 1)
  IN IF c = 0 THEN <<>>
     ELSE <<Trim(SubSeq(s, o + 1, c - 1))>>
            \o SpeakPartsKeepingEmpty(SubSeq(s, c + 1, Len(s)))

\* the loop over SPEAK_BLOCK_RE.exec(text): the trimmed, non-empty contents
\* of the complete blocks, each from an opening marker to the first closing
\* marker after it
RECURSIVE SpeakParts(_)
SpeakParts(s) ==
  LET o == FirstIndex(s, OpenMarkers, 1)
      c == IF o = 0 THEN 0 ELSE FirstIndex(s, CloseMarkers, o + 1)
  IN IF c = 0 THEN <<>>
     ELSE LET content == Trim(SubSeq(s, o + 1, c - 1))
              rest == SpeakParts(SubSeq(s, c + 1, Len(s)))
          IN IF content # <<>> THEN <<content>> \o rest ELSE rest

\* parts.join("\n\n")
RECURSIVE JoinParts(_)
JoinParts(parts) ==
  IF parts = <<>> THEN <<>>
  ELSE IF Len(parts) = 1 THEN parts[1]
  ELSE parts[1] \o <<"\n", "\n">> \o JoinParts(Tail(parts))

extractNarration(text) == JoinParts(SpeakParts(text))

\* number of tokens of s that are among toks
CountTok(s, toks) == Cardinality({i \in 1..Len(s) : s[i] \in toks})

hasIncompleteNarration(text) ==
  CountTok(text, OpenMarkers) > CountTok(text, CloseMarkers)

----------------------------------------------------------------------------
(* chunkText *)

\* index of the first token at or after i that is no whitespace
RECURSIVE SkipSpaces(_, _)
SkipSpaces(s, i) ==
  IF i <= Len(s) /\ IsSpace(s[i]) THEN SkipSpaces(s, i + 1) ELSE i

\* trimmed.split(/(?<=[.!?;:\n])\s+/)
RECURSIVE SplitFrom(_, _, _)
SplitFrom(s, i, cur) ==
  IF i > Len(s) THEN <<cur>>
  ELSE IF IsSpace(s[i]) /\ i > 1 /\ IsBoundary(s[i - 1])
    THEN <<cur>> \o SplitFrom(s, SkipSpaces(s, i), <<>>)
    ELSE SplitFrom(s, i + 1, Append(cur, s[i]))

SplitSentences(s) == SplitFrom(s, 1, <<>>)

\* ChunkLoop without the push of `current` after the loop (line 41)
RECURSIVE ChunkLoopLosingLast(_, _, _, _)
ChunkLoopLosingLast(raw, k, out, current) ==
  IF k > Len(raw)
    THEN out
    ELSE LET seg == Trim(raw[k])
             limit == IF Len(out) = 0 THEN FirstChunkMax ELSE MaxChars
         IN IF seg = <<>> THEN ChunkLoopLosingLast(raw, k + 1, out, current)
            ELSE IF current # <<>> /\ StrLen(current) + 1 + StrLen(seg) > limit
              THEN ChunkLoopLosingLast(raw, k + 1, Append(out, current), seg)
              ELSE ChunkLoopLosingLast(raw, k + 1, out,
                             IF current # <<>> THEN current \o <<" ">> \o seg
                                               ELSE seg)

\* ChunkLoop with maxChars as the limit of every segment
RECURSIVE ChunkLoopOneLimit(_, _, _, _)
ChunkLoopOneLimit(raw, k, out, current) ==
  IF k > Len(raw)
    THEN IF current # <<>> THEN Append(out, current) ELSE out
    ELSE LET seg == Trim(raw[k])
             limit == MaxChars
         IN IF seg = <<>> THEN ChunkLoopOneLimit(raw, k + 1, out, current)
            ELSE IF current # <<>> /\ StrLen(current) + 1 + StrLen(seg) > limit
              THEN ChunkLoopOneLimit(raw, k + 1, Append(out, current), seg)
              ELSE ChunkLoopOneLimit(raw, k + 1, out,
                             IF current # <<>> THEN current \o <<" ">> \o seg
                                               ELSE seg)

\* ChunkLoop that applies firstChunkMax only to a text of more than four units
RECURSIVE ChunkLoopLimitByUnits(_, _, _, _)
ChunkLoopLimitByUnits(raw, k, out, current) ==
  IF k > Len(raw)
    THEN IF current # <<>> THEN Append(out, current) ELSE out
    ELSE LET seg == Trim(raw[k])
             limit == IF Len(out) = 0 /\ Len(raw) > 4 THEN FirstChunkMax
                      ELSE MaxChars
         IN IF seg = <<>> THEN ChunkLoopLimitByUnits(raw, k + 1, out, current)
            ELSE IF current # <<>> /\ StrLen(current) + 1 + StrLen(seg) > limit
              THEN ChunkLoopLimitByUnits(raw, k + 1, Append(out, current), seg)
              ELSE ChunkLoopLimitByUnits(raw, k + 1, out,
                             IF current # <<>> THEN current \o <<" ">> \o seg
                                               ELSE seg)

\* the for loop of chunkText over raw[k..], with `chunks` and `current`
RECURSIVE ChunkLoop(_, _, _, _)
ChunkLoop(raw, k, out, current) ==
  IF k > Len(raw)
    THEN IF current # <<>> THEN Append(out, current) ELSE out
    ELSE LET seg == Trim(raw[k])
             limit == IF Len(out) = 0 THEN FirstChunkMax ELSE MaxChars
         IN IF seg = <<>> THEN ChunkLoop(raw, k + 1, out, current)
            ELSE IF current # <<>> /\ StrLen(current) + 1 + StrLen(seg) > limit
              THEN ChunkLoop(raw, k + 1, Append(out, current), seg)
              ELSE ChunkLoop(raw, k + 1, out,
                             IF current # <<>> THEN current \o <<" ">> \o seg
                                               ELSE seg)

chunkText(text) ==
  LET trimmed == Trim(text)
  IN IF trimmed = <<>> THEN <<>>
     ELSE ChunkLoop(SplitSentences(trimmed), 1, <<>>, <<>>)

----------------------------------------------------------------------------
(* ChunkedSynthesizer: the promises of its waits.  A wait that is pending  *)
(* and a wait whose promise is resolved are two positions of the task.     *)

\* this.changeResolve is set: the producer is suspended in waitForChange
changeResolve == prodPc = "waitChange"
\* wakeProducer is set: the producer is suspended in waitForSpace
wakeProducer == prodPc = "waitSpace"
\* wakeConsumer is set: the consumer is suspended in waitForChunk
wakeConsumer == consPc = "waitChunk"
\* stream(): producerDone
producerDone == prodPc = "done"

\* notifyChange: the producer's position after fn?.()
notifyChange(pc) == IF pc = "waitChange" THEN "resumeChange" ELSE pc
\* notifyProducer: the producer's position after fn?.()
notifyProducer(pc) == IF pc = "waitSpace" THEN "resumeSpace" ELSE pc
\* notifyConsumer that resolves nothing
notifyConsumerLost(pc) == pc
\* notifyConsumer: the consumer's position after fn?.()
notifyConsumer(pc) == IF pc = "waitChunk" THEN "resumeChunk" ELSE pc

\* err instanceof Error ? err : new Error(String(err))
ToError(err) == IF err.isError THEN err ELSE [isError |-> TRUE, text |-> err.text]

Max(x, y) == IF x >= y THEN x ELSE y

\* the end of `ready` in chunks: all of them once flushed, else all but the last
ReadyEnd(ch, fl) == IF fl THEN Len(ch) ELSE Max(0, Len(ch) - 1)

----------------------------------------------------------------------------
(* The caller *)

Init ==
  /\ buffer = <<>>
  /\ flushed = FALSE
  /\ pendingChange = FALSE
  /\ aborted = FALSE
  /\ prefetchSize \in 1..MaxPrefetch
  /\ prodPc = "init"
  /\ chunks = <<>>
  /\ readyEnd = 0
  /\ emittedUpTo = 0
  /\ audio = <<>>
  /\ synthYielded = 0
  /\ queue = <<>>
  /\ producerError = None
  /\ consPc = "init"
  /\ consOutcome = "none"
  /\ calls = <<>>
  /\ enqueued = <<>>
  /\ delivered = <<>>
  /\ thrown = None
  /\ failedSeg = 0
  /\ nPush = 0
  /\ pushAfterFlush = FALSE
  /\ returnedEarly = FALSE
  /\ narrationMode = FALSE
  /\ unseenChange = FALSE
  /\ prodPc2 = "none"
  /\ started = FALSE
  /\ events = <<>>
  /\ loopPc = "idle"
  /\ cancelled = FALSE
  /\ activeSession = "this"
  /\ endFires = 0
  /\ provPaused = FALSE
  /\ playerStopped = FALSE
  /\ playerPaused = FALSE
  /\ playerProc = FALSE
  /\ playPc = "idle"
  /\ playLog = <<>>

producerVars == <<prodPc, chunks, readyEnd, emittedUpTo, audio, synthYielded,
                  producerError, calls, enqueued, thrown, failedSeg>>
consumerVars == <<consPc, consOutcome, delivered, returnedEarly>>
playerVars == <<playerStopped, playerPaused, playerProc, playPc, playLog>>
providerVars == <<activeSession, endFires, provPaused>>
sessionVars == <<started, events, loopPc, cancelled, providerVars, playerVars>>
streamVars == <<buffer, flushed, aborted, prefetchSize, narrationMode, nPush,
                pushAfterFlush>>
callerVars == <<streamVars, sessionVars>>

\* this.changeResolve = resolve by the task entering waitForChange at pc:
\* the position of the other task, whose resolve function is overwritten
overwriteChange(pc, other) ==
  IF pc = "waitChange" /\ other = "waitChange" THEN "orphaned" ELSE other

\* push(text) that puts the text in front of the buffer
PushPrepending(text) ==
  /\ nPush < MaxPush
  /\ buffer' = text \o buffer
  /\ pendingChange' = TRUE
  /\ prodPc' = notifyChange(prodPc)
  /\ prodPc2' = notifyChange(prodPc2)
  /\ nPush' = nPush + 1
  /\ pushAfterFlush' = (pushAfterFlush \/ flushed)
  /\ unseenChange' = TRUE
  /\ UNCHANGED <<flushed, aborted, prefetchSize, narrationMode, sessionVars, chunks,
                 readyEnd, emittedUpTo, audio, synthYielded, queue,
                 producerError, calls, enqueued, thrown, failedSeg,
                 consumerVars>>

\* push(text)
Push(text) ==
  /\ nPush < MaxPush
  /\ buffer' = buffer \o text
  /\ pendingChange' = TRUE
  /\ prodPc' = notifyChange(prodPc)
  /\ prodPc2' = notifyChange(prodPc2)
  /\ nPush' = nPush + 1
  /\ pushAfterFlush' = (pushAfterFlush \/ flushed)
  /\ unseenChange' = TRUE
  /\ UNCHANGED <<flushed, aborted, prefetchSize, narrationMode, sessionVars, chunks,
                 readyEnd, emittedUpTo, audio, synthYielded, queue,
                 producerError, calls, enqueued, thrown, failedSeg,
                 consumerVars>>

\* flush()
Flush ==
  /\ ~flushed
  /\ flushed' = TRUE
  /\ pendingChange' = TRUE
  /\ prodPc' = notifyChange(prodPc)
  /\ prodPc2' = notifyChange(prodPc2)
  /\ unseenChange' = TRUE
  /\ UNCHANGED <<buffer, aborted, prefetchSize, narrationMode, sessionVars, nPush,
                 pushAfterFlush, chunks, readyEnd, emittedUpTo, audio,
                 synthYielded, queue, producerError, calls, enqueued, thrown,
                 failedSeg, consumerVars>>

\* AbortController.abort(): ChunkedSynthesizer registers no listener
Abort ==
  /\ ~aborted
  /\ aborted' = TRUE
  /\ UNCHANGED <<buffer, flushed, pendingChange, prefetchSize, narrationMode,
                 sessionVars, nPush, pushAfterFlush, unseenChange, prodPc2, queue,
                 producerVars, consumerVars>>

----------------------------------------------------------------------------
(* produce() *)

\* ForReady without line 151's `if (signal.aborted) return`
ForReadyIgnoringAbort(ch, re, eu) ==
  /\ emittedUpTo' = eu
  /\ audio' = <<>>
  /\ synthYielded' = 0
  /\ IF eu < re
       THEN /\ prodPc' = "synth"
            /\ chunks' = ch /\ readyEnd' = re
            /\ calls' = Append(calls, ch[eu + 1])
            /\ UNCHANGED pendingChange
       ELSE /\ chunks' = <<>> /\ readyEnd' = 0
            /\ UNCHANGED calls
            /\ IF flushed /\ eu >= Len(ch)
                 THEN prodPc' = "done" /\ UNCHANGED pendingChange
                 ELSE prodPc' = "waitChange" /\ pendingChange' = FALSE

\* ForReady that returns at line 171 only when there are segments
ForReadyNeedingSegments(ch, re, eu) ==
  /\ emittedUpTo' = eu
  /\ audio' = <<>>
  /\ synthYielded' = 0
  /\ IF eu < re
       THEN IF aborted
              THEN /\ prodPc' = "done"
                   /\ chunks' = <<>> /\ readyEnd' = 0
                   /\ UNCHANGED <<calls, pendingChange>>
              ELSE /\ prodPc' = "synth"
                   /\ chunks' = ch /\ readyEnd' = re
                   /\ calls' = Append(calls, ch[eu + 1])
                   /\ UNCHANGED pendingChange
       ELSE /\ chunks' = <<>> /\ readyEnd' = 0
            /\ UNCHANGED calls
            /\ IF flushed /\ eu >= Len(ch) /\ Len(ch) > 0
                 THEN prodPc' = "done" /\ UNCHANGED pendingChange
                 ELSE prodPc' = "waitChange" /\ pendingChange' = FALSE

\* the for loop over `ready` from its head to the next await or to the end
\* of produce(); eu is emittedUpTo, ch and re the chunks and the end of ready
ForReady(ch, re, eu) ==
  /\ emittedUpTo' = eu
  /\ audio' = <<>>
  /\ synthYielded' = 0
  /\ IF eu < re
       THEN IF aborted
              THEN /\ prodPc' = "done"
                   /\ chunks' = <<>> /\ readyEnd' = 0
                   /\ UNCHANGED <<calls, pendingChange>>
              ELSE /\ prodPc' = "synth"
                   /\ chunks' = ch /\ readyEnd' = re
                   /\ calls' = Append(calls, ch[eu + 1])
                   /\ UNCHANGED pendingChange
       ELSE /\ chunks' = <<>> /\ readyEnd' = 0
            /\ UNCHANGED calls
            /\ IF flushed /\ eu >= Len(ch)
                 THEN prodPc' = "done" /\ UNCHANGED pendingChange
                 ELSE prodPc' = "waitChange" /\ pendingChange' = FALSE

\* SpeakableText without the narration filter
SpeakableTextUnfiltered == buffer

\* produce(): raw
SpeakableText == IF narrationMode THEN extractNarration(buffer) ELSE buffer

\* waitForMore that never holds
waitForMoreNever == FALSE

\* produce(): waitForMore
waitForMore == narrationMode /\ hasIncompleteNarration(buffer)

\* one turn of while (!signal.aborted) from its head
WhileBody ==
  IF aborted
    THEN /\ prodPc' = "done"
         /\ UNCHANGED <<chunks, readyEnd, emittedUpTo, audio, synthYielded,
                        calls, pendingChange, unseenChange>>
    ELSE LET ch == chunkText(preprocessForSpeech(SpeakableText))
         IN /\ unseenChange' = FALSE
            /\ ForReady(ch, ReadyEnd(ch, flushed /\ ~waitForMore), emittedUpTo)

\* queue.push(audio); notifyConsumer(); then the next turn of for await
Enqueue(b) ==
  /\ queue' = Append(queue, b)
  /\ enqueued' = Append(enqueued, b)
  /\ consPc' = notifyConsumer(consPc)
  /\ prodPc' = "synth"
  /\ audio' = <<>>

\* OnAudio with `queue.length > prefetchSize` for `>=`
OnAudioOffByOne(b) ==
  IF aborted
    THEN /\ prodPc' = "closing" /\ audio' = <<>>
         /\ UNCHANGED <<queue, enqueued, consPc>>
    ELSE IF Len(queue) > prefetchSize
      THEN /\ prodPc' = "waitSpace" /\ audio' = b
           /\ UNCHANGED <<queue, enqueued, consPc>>
      ELSE Enqueue(b)

\* OnAudio without the checks of signal.aborted of lines 157 and 163
OnAudioIgnoringAbort(b) ==
  IF Len(queue) >= prefetchSize
    THEN /\ prodPc' = "waitSpace" /\ audio' = b
         /\ UNCHANGED <<queue, enqueued, consPc>>
    ELSE Enqueue(b)

\* OnAudio that waits for space whatever the length of the queue
OnAudioAlwaysWaiting(b) ==
  IF aborted
    THEN /\ prodPc' = "closing" /\ audio' = <<>>
         /\ UNCHANGED <<queue, enqueued, consPc>>
    ELSE IF prodPc = "synth"
      THEN /\ prodPc' = "waitSpace" /\ audio' = b
           /\ UNCHANGED <<queue, enqueued, consPc>>
      ELSE Enqueue(b)

\* the body of for await from its head, holding the buffer b
OnAudio(b) ==
  IF aborted
    THEN /\ prodPc' = "closing" /\ audio' = <<>>
         /\ UNCHANGED <<queue, enqueued, consPc>>
    ELSE IF Len(queue) >= prefetchSize
      THEN /\ prodPc' = "waitSpace" /\ audio' = b
           /\ UNCHANGED <<queue, enqueued, consPc>>
      ELSE Enqueue(b)

\* the awaited promise of waitForChange is resolved: the producer resumes
ProducerOnChange ==
  /\ prodPc = "resumeChange"
  /\ WhileBody
  /\ prodPc2' = overwriteChange(prodPc', prodPc2)
  /\ consPc' = IF prodPc' = "done" THEN notifyConsumer(consPc) ELSE consPc
  /\ UNCHANGED <<callerVars, queue, producerError, enqueued, thrown, failedSeg,
                 consOutcome, delivered, returnedEarly>>

\* backend.synthesize yields a buffer
ProducerOnAudio ==
  /\ prodPc = "synth"
  /\ synthYielded < MaxYield
  /\ synthYielded' = synthYielded + 1
  /\ OnAudio(<<emittedUpTo + 1, synthYielded + 1>>)
  /\ UNCHANGED <<callerVars, unseenChange, prodPc2, pendingChange, chunks, readyEnd, emittedUpTo,
                 producerError, calls, thrown, failedSeg, consOutcome,
                 delivered, returnedEarly>>

\* the awaited promise of waitForSpace is resolved: the producer resumes
ProducerOnSpace ==
  /\ prodPc = "resumeSpace"
  /\ OnAudio(audio)
  /\ UNCHANGED <<callerVars, unseenChange, prodPc2, pendingChange, chunks, readyEnd, emittedUpTo,
                 synthYielded, producerError, calls, thrown, failedSeg,
                 consOutcome, delivered, returnedEarly>>

\* ProducerOnSynthDone without emittedUpTo++ (line 168)
ProducerOnSynthDoneNoAdvance ==
  /\ prodPc = "synth"
  /\ ForReady(chunks, readyEnd, emittedUpTo)
  /\ prodPc2' = overwriteChange(prodPc', prodPc2)
  /\ consPc' = IF prodPc' = "done" THEN notifyConsumer(consPc) ELSE consPc
  /\ UNCHANGED <<callerVars, unseenChange, queue, producerError, enqueued, thrown, failedSeg,
                 consOutcome, delivered, returnedEarly>>

\* backend.synthesize completes: emittedUpTo++ and on with the for loop
ProducerOnSynthDone ==
  /\ prodPc = "synth"
  /\ ForReady(chunks, readyEnd, emittedUpTo + 1)
  /\ prodPc2' = overwriteChange(prodPc', prodPc2)
  /\ consPc' = IF prodPc' = "done" THEN notifyConsumer(consPc) ELSE consPc
  /\ UNCHANGED <<callerVars, unseenChange, queue, producerError, enqueued, thrown, failedSeg,
                 consOutcome, delivered, returnedEarly>>

\* ProducerOnSynthError that also drops the failed segment's queued buffers
ProducerOnSynthErrorPurging(err) ==
  /\ prodPc = "synth"
  /\ thrown = None
  /\ thrown' = err
  /\ failedSeg' = emittedUpTo + 1
  /\ producerError' = ToError(err)
  /\ prodPc' = "done"
  /\ consPc' = notifyConsumer(consPc)
  /\ chunks' = <<>> /\ readyEnd' = 0
  /\ queue' = SelectSeq(queue, LAMBDA b : b[1] # emittedUpTo + 1)
  /\ UNCHANGED <<callerVars, unseenChange, prodPc2, pendingChange, emittedUpTo, audio, synthYielded,
                 calls, enqueued, consOutcome, delivered, returnedEarly>>

\* ProducerOnSynthError with the catch inside the while loop: the error is
\* stored and the loop goes on
ProducerOnSynthErrorResuming(err) ==
  /\ prodPc = "synth"
  /\ thrown = None
  /\ thrown' = err
  /\ failedSeg' = emittedUpTo + 1
  /\ producerError' = ToError(err)
  /\ prodPc' = "resumeChange"
  /\ consPc' = notifyConsumer(consPc)
  /\ chunks' = <<>> /\ readyEnd' = 0
  /\ UNCHANGED <<callerVars, unseenChange, prodPc2, pendingChange, emittedUpTo, audio, synthYielded,
                 queue, calls, enqueued, consOutcome, delivered,
                 returnedEarly>>

\* backend.synthesize throws err: catch, then finally
ProducerOnSynthError(err) ==
  /\ prodPc = "synth"
  /\ thrown = None
  /\ thrown' = err
  /\ failedSeg' = emittedUpTo + 1
  /\ producerError' = ToError(err)
  /\ prodPc' = "done"
  /\ consPc' = notifyConsumer(consPc)
  /\ chunks' = <<>> /\ readyEnd' = 0
  /\ UNCHANGED <<callerVars, unseenChange, prodPc2, pendingChange, emittedUpTo, audio, synthYielded,
                 queue, calls, enqueued, consOutcome, delivered,
                 returnedEarly>>

\* a return inside for await: the backend's iterator is closed, then finally
ProducerClose ==
  /\ prodPc = "closing"
  /\ prodPc' = "done"
  /\ consPc' = notifyConsumer(consPc)
  /\ chunks' = <<>> /\ readyEnd' = 0
  /\ UNCHANGED <<callerVars, unseenChange, prodPc2, pendingChange, emittedUpTo, audio, synthYielded,
                 queue,
                 producerError, calls, enqueued, thrown, failedSeg,
                 consOutcome, delivered, returnedEarly>>

----------------------------------------------------------------------------
(* stream(): the consumer *)

\* ConsumerLoop with queue.pop() for queue.shift()
ConsumerLoopPopLast(pc, q) ==
  IF aborted
    THEN /\ consPc' = "finally" /\ consOutcome' = "return"
         /\ UNCHANGED <<queue, delivered>>
    ELSE IF Len(q) > 0
      THEN /\ consPc' = "yielded"
           /\ queue' = SubSeq(q, 1, Len(q) - 1)
           /\ delivered' = Append(delivered, q[Len(q)])
           /\ UNCHANGED consOutcome
      ELSE /\ UNCHANGED <<queue, delivered>>
           /\ IF pc = "done"
                THEN /\ consPc' = "finally"
                     /\ consOutcome' =
                          IF producerError # None THEN "throw" ELSE "return"
                ELSE consPc' = "waitChunk" /\ UNCHANGED consOutcome

\* ConsumerLoop without line 197's `if (producerError) throw producerError`
ConsumerLoopNoRethrow(pc, q) ==
  IF aborted
    THEN /\ consPc' = "finally" /\ consOutcome' = "return"
         /\ UNCHANGED <<queue, delivered>>
    ELSE IF Len(q) > 0
      THEN /\ consPc' = "yielded"
           /\ queue' = Tail(q)
           /\ delivered' = Append(delivered, Head(q))
           /\ UNCHANGED consOutcome
      ELSE /\ UNCHANGED <<queue, delivered>>
           /\ IF pc = "done"
                THEN consPc' = "finally" /\ consOutcome' = "return"
                ELSE consPc' = "waitChunk" /\ UNCHANGED consOutcome

\* one turn of while (!signal.aborted) of the consumer, the producer being
\* at pc with the queue q
ConsumerLoop(pc, q) ==
  IF aborted
    THEN /\ consPc' = "finally" /\ consOutcome' = "return"
         /\ UNCHANGED <<queue, delivered>>
    ELSE IF Len(q) > 0
      THEN /\ consPc' = "yielded"
           /\ queue' = Tail(q)
           /\ delivered' = Append(delivered, Head(q))
           /\ UNCHANGED consOutcome
      ELSE /\ UNCHANGED <<queue, delivered>>
           /\ IF pc = "done"
                THEN /\ consPc' = "finally"
                     /\ consOutcome' =
                          IF producerError # None THEN "throw" ELSE "return"
                ELSE consPc' = "waitChunk" /\ UNCHANGED consOutcome

\* the first next(): the body of stream() runs, produce() to its first await
Start ==
  /\ consPc = "init"
  /\ WhileBody
  /\ prodPc2' = overwriteChange(prodPc', prodPc2)
  /\ ConsumerLoop(prodPc', queue)
  /\ UNCHANGED <<callerVars, producerError, enqueued, thrown, failedSeg,
                 returnedEarly>>

\* a later next(): the generator resumes after its yield
Pull ==
  /\ consPc = "yielded"
  /\ prodPc' = notifyProducer(prodPc)
  /\ ConsumerLoop(prodPc, queue)
  /\ UNCHANGED <<callerVars, unseenChange, prodPc2, pendingChange, chunks, readyEnd, emittedUpTo,
                 audio, synthYielded, producerError, calls, enqueued, thrown,
                 failedSeg, returnedEarly>>

\* the awaited promise of waitForChunk is resolved: the consumer resumes
ConsumerOnChunk ==
  /\ consPc = "resumeChunk"
  /\ ConsumerLoop(prodPc, queue)
  /\ UNCHANGED <<callerVars, unseenChange, prodPc2, pendingChange, producerVars, returnedEarly>>

\* return() on the generator suspended at its yield (a break in for await)
Return ==
  /\ consPc = "yielded"
  /\ consPc' = "finally"
  /\ consOutcome' = "return"
  /\ returnedEarly' = TRUE
  /\ UNCHANGED <<callerVars, unseenChange, prodPc2, pendingChange, queue, producerVars, delivered>>

\* finally: await producerPromise.catch(() => {}) resumes, the generator ends
ConsumerFinish ==
  /\ consPc = "finally"
  /\ producerDone
  /\ consPc' = IF consOutcome = "throw" THEN "threw" ELSE "ended"
  /\ UNCHANGED <<callerVars, unseenChange, prodPc2, pendingChange, queue, producerVars, consOutcome,
                 delivered, returnedEarly>>

----------------------------------------------------------------------------

Next ==
  \/ \E text \in Fragments : Push(text)
  \/ Flush
  \/ Abort
  \/ Start
  \/ Pull
  \/ Return
  \/ ConsumerOnChunk
  \/ ConsumerFinish
  \/ ProducerOnChange
  \/ ProducerOnAudio
  \/ ProducerOnSpace
  \/ ProducerOnSynthDone
  \/ \E err \in Throwables : ProducerOnSynthError(err)
  \/ ProducerClose

Spec == Init /\ [][Next]_vars

----------------------------------------------------------------------------
(* The pipeline with the narration markers: narrationMode read as true or  *)
(* as false, and texts that hold markers, plain text and whitespace.       *)

\* the fragments push() is called with
NarrationFragments ==
  { <<SpeakOpen, "a", ".", SpeakClose>>, <<SpeakOpen, "b">>, <<SpeakClose>>,
    <<"a", ".", " ">>, <<" ">> }

InitNarration ==
  /\ buffer = <<>>
  /\ flushed = FALSE
  /\ pendingChange = FALSE
  /\ aborted = FALSE
  /\ prefetchSize \in 1..MaxPrefetch
  /\ narrationMode \in BOOLEAN
  /\ prodPc = "init"
  /\ chunks = <<>>
  /\ readyEnd = 0
  /\ emittedUpTo = 0
  /\ audio = <<>>
  /\ synthYielded = 0
  /\ queue = <<>>
  /\ producerError = None
  /\ consPc = "init"
  /\ consOutcome = "none"
  /\ calls = <<>>
  /\ enqueued = <<>>
  /\ delivered = <<>>
  /\ thrown = None
  /\ failedSeg = 0
  /\ nPush = 0
  /\ pushAfterFlush = FALSE
  /\ returnedEarly = FALSE
  /\ unseenChange = FALSE
  /\ prodPc2 = "none"
  /\ started = FALSE
  /\ events = <<>>
  /\ loopPc = "idle"
  /\ cancelled = FALSE
  /\ activeSession = "this"
  /\ endFires = 0
  /\ provPaused = FALSE
  /\ playerStopped = FALSE
  /\ playerPaused = FALSE
  /\ playerProc = FALSE
  /\ playPc = "idle"
  /\ playLog = <<>>

NextNarration ==
  \/ \E text \in NarrationFragments : Push(text)
  \/ Flush
  \/ Abort
  \/ Start
  \/ Pull
  \/ Return
  \/ ConsumerOnChunk
  \/ ConsumerFinish
  \/ ProducerOnChange
  \/ ProducerOnAudio
  \/ ProducerOnSpace
  \/ ProducerOnSynthDone
  \/ \E err \in Throwables : ProducerOnSynthError(err)
  \/ ProducerClose

SpecNarration == InitNarration /\ [][NextNarration]_vars

----------------------------------------------------------------------------
(* A second call of stream() on the same ChunkedSynthesizer.  Its          *)
(* generator has a queue and a consumer of its own; its produce() shares   *)
(* the buffer, flushed, pendingChange and changeResolve, and is followed   *)
(* to its first await.                                                     *)

\* stream() called again and its generator started: produce() runs from
\* the head of its while loop, with its own emittedUpTo of 0
StreamAgain ==
  /\ consPc # "init"
  /\ prodPc2 = "none"
  /\ IF aborted
       THEN /\ prodPc2' = "done"
            /\ UNCHANGED <<calls, pendingChange, prodPc>>
       ELSE LET ch == chunkText(preprocessForSpeech(SpeakableText))
                re == ReadyEnd(ch, flushed /\ ~waitForMore)
            IN IF 0 < re
                 THEN /\ prodPc2' = "synth"
                      /\ calls' = Append(calls, ch[1])
                      /\ UNCHANGED <<pendingChange, prodPc>>
                 ELSE /\ UNCHANGED calls
                      /\ IF flushed /\ 0 >= Len(ch)
                           THEN /\ prodPc2' = "done"
                                /\ UNCHANGED <<pendingChange, prodPc>>
                           ELSE /\ prodPc2' = "waitChange"
                                /\ pendingChange' = FALSE
                                /\ prodPc' = overwriteChange("waitChange", prodPc)
  /\ UNCHANGED <<callerVars, unseenChange, queue, chunks, readyEnd, emittedUpTo,
                 audio, synthYielded, producerError, enqueued, thrown,
                 failedSeg, consumerVars>>

NextReuse ==
  \/ Next
  \/ StreamAgain

SpecReuse == Init /\ [][NextReuse]_vars

----------------------------------------------------------------------------
(* StreamingTextToSpeechSession with its AudioPlayer, and the             *)
(* EloquentProvider that created it.  synthesize() pushes;                 *)
(* runPlaybackLoop, started by the first synthesize(), calls flush() when  *)
(* the batch delay has elapsed and starts to iterate stream() in the same  *)
(* turn; each buffer is played before the next is pulled.  stream()        *)
(* starts with flushed set, so every segment is ready and produce() never  *)
(* reaches waitForChange.  The provider may create another session, which  *)
(* takes the place of this one as its active session.                      *)

\* synthesize() calls in one behaviour
MaxSynth == 2

\* the texts synthesize() is called with
SessionTexts == { <<>>, <<"a", ".", " ">>, <<"b">> }

\* AudioPlayer.playFile: the process is launched
Launch ==
  /\ playerProc' = TRUE
  /\ playPc' = "playing"
  /\ UNCHANGED playLog

\* AudioPlayer.play returns without a process
Skip(how) ==
  /\ playPc' = "returned"
  /\ playLog' = Append(playLog, how)
  /\ UNCHANGED playerProc

\* AudioPlayer.play(chunk) up to its first await or its return
play ==
  /\ IF playerStopped THEN Skip("skipped")
     ELSE IF playerPaused
       THEN playPc' = "pauseWait" /\ UNCHANGED <<playerProc, playLog>>
       ELSE Launch
  /\ UNCHANGED <<playerStopped, playerPaused>>

\* AudioPlayer.pause()
pause ==
  /\ playerPaused' = TRUE
  /\ UNCHANGED <<playerStopped, playerProc, playPc, playLog>>

\* AudioPlayer.resume(), and the play() it releases up to its next await
resume ==
  /\ playerPaused' = FALSE
  /\ IF playPc = "pauseWait"
       THEN IF playerStopped THEN Skip("released") ELSE Launch
       ELSE UNCHANGED <<playerProc, playPc, playLog>>
  /\ UNCHANGED playerStopped

\* AudioPlayer.stop() that leaves a play() waiting for resume() suspended
stopKeepingWaiter ==
  /\ playerStopped' = TRUE
  /\ playerPaused' = FALSE
  /\ playerProc' = FALSE
  /\ UNCHANGED <<playPc, playLog>>

\* AudioPlayer.stop(), and the play() it releases up to its return
stop ==
  /\ playerStopped' = TRUE
  /\ playerPaused' = FALSE
  /\ IF playPc = "pauseWait"
       THEN Skip("released")
       ELSE playerProc' = FALSE /\ UNCHANGED <<playPc, playLog>>

\* the callback of execFile without an error or with the SIGTERM of stop():
\* the promise of playFile is resolved.  A process that pause() has
\* suspended does not exit.
PlayEnded ==
  /\ playPc = "playing"
  /\ playerProc => ~playerPaused
  /\ playerProc' = FALSE
  /\ playPc' = "returned"
  /\ playLog' = Append(playLog, IF playerProc THEN "played" ELSE "killed")
  /\ UNCHANGED <<playerStopped, playerPaused>>
  /\ UNCHANGED <<streamVars, started, events, loopPc, cancelled, providerVars,
                 unseenChange, prodPc2, pendingChange, queue, producerVars,
                 consumerVars>>

\* the callback of execFile with another error: the promise is rejected
PlayFailed ==
  /\ playPc = "playing"
  /\ playerProc /\ ~playerPaused
  /\ playerProc' = FALSE
  /\ playPc' = "rejected"
  /\ playLog' = Append(playLog, "failed")
  /\ UNCHANGED <<playerStopped, playerPaused>>
  /\ UNCHANGED <<streamVars, started, events, loopPc, cancelled, providerVars,
                 unseenChange, prodPc2, pendingChange, queue, producerVars,
                 consumerVars>>

\* onSessionDone that does not compare activeSession with its session
onSessionDoneUnguarded ==
  /\ activeSession' = "none"
  /\ provPaused' = FALSE
  /\ endFires' = endFires + 1

\* onSessionDone that ends whatever session is the active one
onSessionDoneOfAny ==
  IF activeSession # "none"
    THEN /\ activeSession' = "none"
         /\ provPaused' = FALSE
         /\ endFires' = IF activeSession = "this" THEN endFires + 1
                                                  ELSE endFires
    ELSE UNCHANGED providerVars

\* onSessionDone of provideTextToSpeechSession, for this session
onSessionDone ==
  IF activeSession = "this"
    THEN /\ activeSession' = "none"
         /\ provPaused' = FALSE
         /\ endFires' = endFires + 1
    ELSE UNCHANGED providerVars

\* flush() was called and the for await that follows it has not yet begun
InPlaybackStart == flushed /\ consPc = "init"

\* the body of synthesize() on a session that is not aborted
SynthesizeBody(text) ==
  /\ buffer' = buffer \o text
  /\ pendingChange' = TRUE
  /\ prodPc' = notifyChange(prodPc)
  /\ prodPc2' = notifyChange(prodPc2)
  /\ pushAfterFlush' = (pushAfterFlush \/ flushed)
  /\ unseenChange' = TRUE
  /\ started' = TRUE
  /\ IF started
       THEN UNCHANGED <<events, loopPc>>
       ELSE events' = Append(events, "Started") /\ loopPc' = "delay"

\* synthesize() without the check of the signal
SynthesizeUnchecked(text) ==
  /\ ~InPlaybackStart
  /\ nPush < MaxSynth
  /\ nPush' = nPush + 1
  /\ SynthesizeBody(text)
  /\ UNCHANGED <<flushed, aborted, prefetchSize, narrationMode, cancelled,
                 providerVars, playerVars, chunks, readyEnd, emittedUpTo,
                 audio, synthYielded, queue, producerError, calls, enqueued,
                 thrown, failedSeg, consumerVars>>

\* synthesize() that starts a playback loop at every call
SynthesizeRestarting(text) ==
  /\ ~InPlaybackStart
  /\ nPush < MaxSynth
  /\ nPush' = nPush + 1
  /\ IF aborted
       THEN UNCHANGED <<buffer, pendingChange, prodPc, prodPc2,
                        pushAfterFlush, unseenChange, started, events, loopPc>>
       ELSE /\ buffer' = buffer \o text
            /\ pendingChange' = TRUE
            /\ prodPc' = notifyChange(prodPc)
            /\ prodPc2' = notifyChange(prodPc2)
            /\ pushAfterFlush' = (pushAfterFlush \/ flushed)
            /\ unseenChange' = TRUE
            /\ started' = TRUE
            /\ events' = Append(events, "Started")
            /\ loopPc' = IF loopPc = "idle" THEN "delay" ELSE loopPc
  /\ UNCHANGED <<flushed, aborted, prefetchSize, narrationMode, cancelled,
                 providerVars, playerVars, chunks, readyEnd, emittedUpTo,
                 audio, synthYielded, queue, producerError, calls, enqueued,
                 thrown, failedSeg, consumerVars>>

\* synthesize(text); nPush counts the calls
Synthesize(text) ==
  /\ ~InPlaybackStart
  /\ nPush < MaxSynth
  /\ nPush' = nPush + 1
  /\ IF aborted
       THEN UNCHANGED <<buffer, pendingChange, prodPc, prodPc2,
                        pushAfterFlush, unseenChange, started, events, loopPc>>
       ELSE SynthesizeBody(text)
  /\ UNCHANGED <<flushed, aborted, prefetchSize, narrationMode, cancelled,
                 providerVars, playerVars, chunks, readyEnd, emittedUpTo,
                 audio, synthYielded, queue, producerError, calls, enqueued,
                 thrown, failedSeg, consumerVars>>

\* runPlaybackLoop: the batch delay has elapsed, flush()
BatchDelayElapsed == loopPc = "delay" /\ Flush

\* runPlaybackLoop: for await begins to iterate stream()
PlaybackStart ==
  /\ InPlaybackStart
  /\ loopPc = "delay"
  /\ WhileBody
  /\ prodPc2' = overwriteChange(prodPc', prodPc2)
  /\ ConsumerLoop(prodPc', queue)
  /\ loopPc' = "next"
  /\ UNCHANGED <<streamVars, started, events, cancelled, providerVars,
                 playerVars, producerError, enqueued, thrown, failedSeg,
                 returnedEarly>>

\* runPlaybackLoop: a buffer arrives in the body of for await, which
\* returns if the signal is aborted and calls player.play otherwise
LoopOnChunk ==
  /\ loopPc = "next"
  /\ consPc = "yielded"
  /\ IF aborted
       THEN /\ consPc' = "finally"
            /\ consOutcome' = "return"
            /\ returnedEarly' = TRUE
            /\ loopPc' = "returning"
            /\ UNCHANGED playerVars
       ELSE /\ play
            /\ loopPc' = "playing"
            /\ UNCHANGED <<consPc, consOutcome, returnedEarly>>
  /\ UNCHANGED <<streamVars, started, events, cancelled, providerVars,
                 unseenChange, prodPc2, pendingChange, queue, producerVars,
                 delivered>>

\* runPlaybackLoop: player.play has returned, for await asks for the next
\* buffer and the generator resumes after its yield
PlayDone ==
  /\ loopPc = "playing"
  /\ playPc = "returned"
  /\ playPc' = "idle"
  /\ loopPc' = "next"
  /\ prodPc' = notifyProducer(prodPc)
  /\ ConsumerLoop(prodPc, queue)
  /\ UNCHANGED <<streamVars, started, events, cancelled, providerVars,
                 playerStopped, playerPaused, playerProc, playLog,
                 unseenChange, prodPc2, pendingChange, chunks, readyEnd,
                 emittedUpTo, audio, synthYielded, producerError, calls,
                 enqueued, thrown, failedSeg, returnedEarly>>

\* runPlaybackLoop: player.play has thrown; for await closes the generator
\* with return() before the error reaches the catch
LoopOnPlayError ==
  /\ loopPc = "playing"
  /\ playPc = "rejected"
  /\ playPc' = "idle"
  /\ loopPc' = "throwing"
  /\ consPc' = "finally"
  /\ consOutcome' = "return"
  /\ returnedEarly' = TRUE
  /\ UNCHANGED <<streamVars, started, events, cancelled, providerVars,
                 playerStopped, playerPaused, playerProc, playLog,
                 unseenChange, prodPc2, pendingChange, queue, producerVars,
                 delivered>>

\* runPlaybackLoop: the generator has ended; Stopped is fired if the loop
\* ended by itself and the signal is not aborted, Error if an error reached
\* the catch; finally calls onDone
LoopOnEnd ==
  /\ loopPc \in {"next", "returning", "throwing"}
  /\ consPc \in {"ended", "threw"}
  /\ loopPc' = "done"
  /\ events' =
       IF loopPc = "throwing" \/ consPc = "threw"
         THEN Append(events, "Error")
         ELSE IF loopPc = "next" /\ ~aborted
           THEN Append(events, "Stopped")
           ELSE events
  /\ onSessionDone
  /\ UNCHANGED <<streamVars, started, cancelled, playerVars, unseenChange,
                 prodPc2, pendingChange, queue, producerVars, consumerVars>>

\* the token is cancelled: the handler of the session aborts, stops the
\* player and fires Stopped, then the handler of the provider runs
TokenCancel ==
  /\ ~InPlaybackStart
  /\ ~cancelled
  /\ cancelled' = TRUE
  /\ aborted' = TRUE
  /\ stop
  /\ events' = Append(events, "Stopped")
  /\ onSessionDone
  /\ UNCHANGED <<buffer, flushed, prefetchSize, narrationMode, nPush,
                 pushAfterFlush, started, loopPc, unseenChange, prodPc2,
                 pendingChange, queue, producerVars, consumerVars>>

\* EloquentProvider.stopActiveSession() with a session active: this one,
\* whose stop() aborts and stops the player, or the other one
stopActiveSession ==
  /\ ~InPlaybackStart
  /\ activeSession # "none"
  /\ activeSession' = "none"
  /\ provPaused' = FALSE
  /\ IF activeSession = "this"
       THEN /\ aborted' = TRUE
            /\ stop
            /\ endFires' = endFires + 1
       ELSE UNCHANGED <<aborted, playerVars, endFires>>
  /\ UNCHANGED <<buffer, flushed, prefetchSize, narrationMode, nPush,
                 pushAfterFlush, started, events, loopPc, cancelled,
                 unseenChange, prodPc2, pendingChange, queue, producerVars,
                 consumerVars>>

\* EloquentProvider.togglePause() with a session active: resume() or
\* pause() of this session's player, or of the other session's
togglePause ==
  /\ ~InPlaybackStart
  /\ activeSession # "none"
  /\ provPaused' = ~provPaused
  /\ IF activeSession = "this"
       THEN IF provPaused THEN resume ELSE pause
       ELSE UNCHANGED playerVars
  /\ UNCHANGED <<streamVars, started, events, loopPc, cancelled,
                 activeSession, endFires, unseenChange, prodPc2,
                 pendingChange, queue, producerVars, consumerVars>>

\* EloquentProvider.provideTextToSpeechSession() is called again: the new
\* session is the active one
ProvideOtherSession ==
  /\ ~InPlaybackStart
  /\ activeSession # "other"
  /\ activeSession' = "other"
  /\ provPaused' = FALSE
  /\ UNCHANGED <<streamVars, started, events, loopPc, cancelled, endFires,
                 playerVars, unseenChange, prodPc2, pendingChange, queue,
                 producerVars, consumerVars>>

\* onSessionDone of the other session, when it is the active one
OtherSessionDone ==
  /\ ~InPlaybackStart
  /\ activeSession = "other"
  /\ activeSession' = "none"
  /\ provPaused' = FALSE
  /\ UNCHANGED <<streamVars, started, events, loopPc, cancelled, endFires,
                 playerVars, unseenChange, prodPc2, pendingChange, queue,
                 producerVars, consumerVars>>

NextSession ==
  \/ \E text \in SessionTexts : Synthesize(text)
  \/ BatchDelayElapsed
  \/ PlaybackStart
  \/ LoopOnChunk
  \/ PlayEnded
  \/ PlayFailed
  \/ PlayDone
  \/ LoopOnPlayError
  \/ LoopOnEnd
  \/ TokenCancel
  \/ stopActiveSession
  \/ togglePause
  \/ ProvideOtherSession
  \/ OtherSessionDone
  \/ ConsumerOnChunk
  \/ ConsumerFinish
  \/ ProducerOnAudio
  \/ ProducerOnSpace
  \/ ProducerOnSynthDone
  \/ \E err \in Throwables : ProducerOnSynthError(err)
  \/ ProducerClose

SpecSession == Init /\ [][NextSession]_vars

----------------------------------------------------------------------------
(* AudioPlayer on its own: a caller that awaits each play() before the     *)
(* next, and calls pause(), resume() and stop() at any time.               *)

\* play() calls in one behaviour
MaxPlay == 3

\* the frame of the player's actions
playerFrame ==
  UNCHANGED <<streamVars, started, events, loopPc, cancelled, providerVars,
              unseenChange, prodPc2, pendingChange, queue, producerVars,
              consumerVars>>

\* the caller calls play(chunk)
PlayerPlay ==
  /\ playPc = "idle"
  /\ Len(playLog) < MaxPlay
  /\ play
  /\ playerFrame

\* the caller's await of play() resumes
PlayerReturn ==
  /\ playPc \in {"returned", "rejected"}
  /\ playPc' = "idle"
  /\ UNCHANGED <<playerStopped, playerPaused, playerProc, playLog>>
  /\ playerFrame

\* the caller calls pause()
PlayerPause == ~playerPaused /\ pause /\ playerFrame

\* the caller calls resume()
PlayerResume == playerPaused /\ resume /\ playerFrame

\* the caller calls stop()
PlayerStop == ~playerStopped /\ stop /\ playerFrame

NextPlayer ==
  \/ PlayerPlay
  \/ PlayerReturn
  \/ PlayerPause
  \/ PlayerResume
  \/ PlayerStop
  \/ PlayEnded
  \/ PlayFailed

SpecPlayer == Init /\ [][NextPlayer]_vars

----------------------------------------------------------------------------
(* chunkText on its own: texts built piece by piece, chunked at each step  *)

\* the pieces a text is built from
Pieces ==
  { <<"a", ".", " ">>, <<"a">>, <<"c">>, <<" ">>, <<"\n">>, <<".">> }

\* the text grows by a piece and chunkText is applied to it
Grow(piece) ==
  /\ nPush < MaxPieces
  /\ buffer' = buffer \o piece
  /\ chunks' = chunkText(buffer')
  /\ nPush' = nPush + 1
  /\ UNCHANGED <<flushed, pendingChange, aborted, prefetchSize, narrationMode,
                 prodPc, readyEnd, emittedUpTo, audio, synthYielded, queue,
                 producerError, consPc, consOutcome, calls, enqueued,
                 delivered, thrown, failedSeg, pushAfterFlush, returnedEarly,
                 unseenChange, prodPc2, sessionVars>>

NextChunk == \E piece \in Pieces : Grow(piece)

SpecChunk == Init /\ [][NextChunk]_vars

----------------------------------------------------------------------------
(* extractNarration on its own: texts with markers built piece by piece    *)

\* the pieces a text with markers is built from
MarkerPieces ==
  { <<SpeakOpen>>, <<SpeakClose>>, <<SpeakOpenUpper>>, <<SpeakCloseUpper>>,
    <<"a">>, <<" ">> }

\* the text grows by a piece; raw, processed and chunks of produce() are
\* computed from it
GrowMarked(piece) ==
  /\ nPush < MaxPieces
  /\ buffer' = buffer \o piece
  /\ chunks' = chunkText(preprocessForSpeech(
                  IF narrationMode THEN extractNarration(buffer')
                                   ELSE buffer'))
  /\ nPush' = nPush + 1
  /\ UNCHANGED <<flushed, pendingChange, aborted, prefetchSize, narrationMode,
                 prodPc, readyEnd, emittedUpTo, audio, synthYielded, queue,
                 producerError, consPc, consOutcome, calls, enqueued,
                 delivered, thrown, failedSeg, pushAfterFlush, returnedEarly,
                 unseenChange, prodPc2, sessionVars>>

NextExtract == \E piece \in MarkerPieces : GrowMarked(piece)

SpecExtract == InitNarration /\ [][NextExtract]_vars

----------------------------------------------------------------------------
(* Who can take a step, by the guards of the actions *)

\* produce() can take a step on its own or on an answer of the backend: one
\* of ProducerOnChange, ProducerOnAudio, ProducerOnSynthDone,
\* ProducerOnSynthError, ProducerOnSpace, ProducerClose is enabled
ProducerCanStep == prodPc \in {"resumeChange", "synth", "resumeSpace", "closing"}

\* the generator can take a step without a call of the caller:
\* ConsumerOnChunk or ConsumerFinish is enabled
ConsumerCanStep ==
  \/ consPc = "resumeChunk"
  \/ consPc = "finally" /\ producerDone

\* the generator waits for the caller's next(): Start or Pull is enabled
CallerCanPull == consPc \in {"init", "yielded"}

----------------------------------------------------------------------------
(* Properties *)

\* the texts of cs joined by single spaces
RECURSIVE JoinCalls(_)
JoinCalls(cs) ==
  IF cs = <<>> THEN <<>>
  ELSE IF Len(cs) = 1 THEN cs[1]
  ELSE cs[1] \o <<" ">> \o JoinCalls(Tail(cs))

\* whitespace normalisation: runs of spaces are one space, none at the ends
NormaliseSpace(s) == Trim(CollapseSpaces(s))

\* number of buffers of segment seg in bs
CountSeg(bs, seg) == Cardinality({i \in 1..Len(bs) : bs[i][1] = seg})

\* bs lists buffers segment by segment and, within a segment, from the first
\* buffer the backend yielded on, without a gap
InYieldOrder(bs) ==
  /\ bs # <<>> => bs[1][2] = 1
  /\ \A i \in 1..(Len(bs) - 1) :
       \/ bs[i + 1][1] = bs[i][1] /\ bs[i + 1][2] = bs[i][2] + 1
       \/ bs[i + 1][1] > bs[i][1] /\ bs[i + 1][2] = 1

\* the stream ended cleanly after push calls followed by one flush, with no
\* cancellation, no failure of the backend and no early return
CleanRun ==
  /\ consPc = "ended"
  /\ flushed /\ ~pushAfterFlush
  /\ ~aborted /\ thrown = None /\ ~returnedEarly

\* C1: when the stream ends after pushes followed by flush, without
\* cancellation or failure, the texts passed to backend.synthesize, joined in
\* the order of the calls, are the whole pushed text (as preprocessForSpeech
\* leaves it) up to whitespace: nothing lost, duplicated or reordered.
C1_OrderPreservation ==
  CleanRun =>
    NormaliseSpace(JoinCalls(calls)) = NormaliseSpace(preprocessForSpeech(buffer))

\* C2: the prefetch queue never holds more than prefetchSize buffers.
C2_BackpressureBound == Len(queue) <= prefetchSize

\* C2 witness: the producer waits for space with the second buffer of one
\* synthesize call in hand, the queue being full.
C2_Witness ==
  /\ prodPc = "waitSpace"
  /\ Len(queue) = prefetchSize
  /\ audio[2] >= 2

\* C3: the buffers leave the queue in the order they entered it, none twice
\* and none skipped, and they entered it segment by segment in the order the
\* backend yielded them.
C3_FifoDelivery ==
  /\ enqueued = delivered \o queue
  /\ InYieldOrder(enqueued)

\* C3 witness: buffers of two segments were delivered, two of one segment.
C3_Witness ==
  /\ Len(delivered) >= 3
  /\ \E i, j \in 1..Len(delivered) :
       /\ delivered[i][1] # delivered[j][1]
       /\ delivered[j][2] = 2

\* C4: once flush() was called, with no cancellation and no failure, the
\* caller pulling, the pipeline is never stuck before the stream has ended
\* cleanly: the caller can pull, or the producer or the consumer can step.
C4_TerminationAfterFlush ==
  (flushed /\ ~aborted /\ thrown = None /\ ~returnedEarly)
    => (consPc = "ended" \/ CallerCanPull \/ ConsumerCanStep \/ ProducerCanStep)

\* C5: once the signal is aborted no buffer is enqueued and none is yielded.
C5_CancellationSafety ==
  [][aborted => (enqueued' = enqueued /\ delivered' = delivered)]_vars

\* C5 witness: after the abort the producer has dropped a buffer the backend
\* yielded, while buffers are still in the queue.
C5_Witness ==
  /\ aborted
  /\ prodPc = "closing"
  /\ queue # <<>>

\* C6: once the signal is aborted, a producer that has not stopped can take
\* a step on its own (it is not left in a wait that only push, flush or a
\* pull would end), and a consumer suspended in the generator is not left
\* without a step that ends its wait.
C6_CancellationLiveness ==
  aborted =>
    /\ prodPc \in {"init", "done"} \/ ProducerCanStep
    /\ consPc \in {"ended", "threw"} \/ CallerCanPull
         \/ ConsumerCanStep \/ ProducerCanStep

\* C7: once the signal is aborted backend.synthesize is not invoked again.
C7_NoSynthesisAfterAbort ==
  [][aborted => calls' = calls]_vars

\* C7 witness: the producer has stopped on the abort with a segment of the
\* flushed text never passed to the backend.
C7_Witness ==
  /\ aborted /\ flushed /\ thrown = None
  /\ prodPc = "done"
  /\ Len(calls) >= 1
  /\ Len(calls) < Len(chunkText(preprocessForSpeech(buffer)))

\* C8: when the iteration ends by raising, it raises the backend's Error, or
\* an Error carrying the string form of what the backend threw, and every
\* enqueued buffer has been yielded; after a failure of the backend, without
\* cancellation or early return, the stream does not end cleanly.
C8_ErrorPropagation ==
  /\ consPc = "threw" =>
       /\ thrown # None
       /\ producerError.isError
       /\ producerError.text = thrown.text
       /\ queue = <<>>
       /\ delivered = enqueued
  /\ (thrown # None /\ ~aborted /\ ~returnedEarly) => consPc # "ended"

\* C8 witness: the iteration raised after a bare string was thrown, a buffer
\* of an earlier segment having been yielded.
C8_Witness ==
  /\ consPc = "threw"
  /\ ~thrown.isError
  /\ ~aborted
  /\ \E i \in 1..Len(delivered) : delivered[i][1] < failedSeg

\* C9 as stated: no buffer of the segment whose synthesis raised is yielded.
C9_FailedSegmentContributesNothing ==
  thrown # None => \A i \in 1..Len(delivered) : delivered[i][1] # failedSeg

\* C9 as amended: the segment whose synthesis raised contributes exactly
\* the buffers it yielded before raising: they are enqueued, none is
\* enqueued after the raise, and all of them have been yielded when the
\* iteration ends by raising.
C9_FailedSegmentContributesItsBuffers ==
  thrown # None =>
    /\ CountSeg(enqueued, failedSeg) = synthYielded
    /\ consPc = "threw" => CountSeg(delivered, failedSeg) = synthYielded

\* C9 witness: the iteration raised after yielding a buffer of the failed
\* segment.
C9_Witness ==
  /\ consPc = "threw"
  /\ synthYielded >= 1
  /\ CountSeg(delivered, failedSeg) >= 1

\* C10: once the signal is aborted the iteration does not end by raising.
C10_CancellationIsNotAnError ==
  [][aborted => ~(consPc # "threw" /\ consPc' = "threw")]_vars

\* s holds whitespace only, or nothing
AllSpace(s) == \A i \in 1..Len(s) : IsSpace(s[i])

\* C11: when everything pushed is empty or whitespace, backend.synthesize is
\* never invoked, no buffer is enqueued or yielded, the iteration does not
\* raise, and once flush() was called (without cancellation) the pipeline
\* is not stuck before the stream has ended.
C11_EmptyInput ==
  AllSpace(buffer) =>
    /\ calls = <<>> /\ enqueued = <<>> /\ delivered = <<>>
    /\ consPc # "threw"
    /\ (flushed /\ ~aborted) =>
         (consPc = "ended" \/ CallerCanPull \/ ConsumerCanStep
            \/ ProducerCanStep)

\* C11 witness: whitespace was pushed to a running stream, narration off,
\* flush() followed, and the stream has ended.
C11_Witness ==
  /\ AllSpace(buffer) /\ buffer # <<>>
  /\ ~narrationMode /\ ~aborted
  /\ flushed /\ consPc = "ended"
  /\ unseenChange = FALSE /\ nPush >= 2

\* a step in which produce() runs a turn of its while loop from the head,
\* narration on, the buffer holding an opening marker without its closing
\* marker
IterationOnOpenMarker ==
  /\ narrationMode /\ ~aborted
  /\ hasIncompleteNarration(buffer)
  /\ prodPc \in {"init", "resumeChange"}
  /\ prodPc' # prodPc

NoMarker(s) == \A i \in 1..Len(s) : s[i] \notin SpeakTokens

\* C13: narration on and no marker in the buffer: backend.synthesize is never
\* invoked, no buffer is enqueued or yielded, the iteration does not raise,
\* and once flush() was called (without cancellation) the pipeline is not
\* stuck before the stream has ended.
C13_NoMarkersNoAudio ==
  (narrationMode /\ NoMarker(buffer)) =>
    /\ calls = <<>> /\ enqueued = <<>> /\ delivered = <<>>
    /\ consPc # "threw"
    /\ (flushed /\ ~aborted) =>
         (consPc = "ended" \/ CallerCanPull \/ ConsumerCanStep
            \/ ProducerCanStep)

\* C13 witness: narration on, two sentences without a marker were pushed to
\* a running stream, flush() followed and the stream has ended.
C13_Witness ==
  /\ narrationMode /\ NoMarker(buffer)
  /\ Len(chunkText(preprocessForSpeech(buffer))) >= 2
  /\ flushed /\ ~aborted /\ consPc = "ended"

\* C14: a second call of stream() on the same instance is refused: it never
\* starts a second produce() on the shared buffer and change signal.
C14_StreamIsSingleShot == prodPc2 = "none"

\* C15: once produce() has ended (done, failed or cancelled), push() is
\* refused: no step extends the buffer.
C15_PushAfterEndFails ==
  [][producerDone => buffer' = buffer]_vars

\* C16: produce() is never suspended in waitForChange while a change raised
\* by push() or flush() since it last read the buffer is unseen.
C16_NoMissedWakeup == ~(prodPc = "waitChange" /\ unseenChange)

\* s holds no "<" and no ">"
PlainText(s) == \A i \in 1..Len(s) : s[i] \notin {"<", ">"}

\* C17: when the stream of a session ends without cancellation and without
\* failure of the backend, all text passed to synthesize(), before or after
\* the flush() of the playback loop, was passed to backend.synthesize (for
\* text without markup: the joined calls are the text up to whitespace).
C17_SessionCompleteness ==
  (consPc = "ended" /\ ~aborted /\ thrown = None /\ PlainText(buffer)) =>
    NormaliseSpace(JoinCalls(calls)) = NormaliseSpace(preprocessForSpeech(buffer))

\* the tokens of s that are no whitespace
NonSpace(s) == SelectSeq(s, LAMBDA t : ~IsSpace(t))

\* the whitespace run s[i..j-1] separates two split units: a boundary
\* character stands before it, or before one of its characters but the first
IsUnitGap(s, i, j) ==
  \/ i > 1 /\ IsBoundary(s[i - 1])
  \/ \E k \in i..(j - 2) : IsBoundary(s[k])

\* s from index i on, each run of whitespace between two units as one space
RECURSIVE CollapseUnitGaps(_, _)
CollapseUnitGaps(s, i) ==
  IF i > Len(s) THEN <<>>
  ELSE IF ~IsSpace(s[i]) THEN <<s[i]>> \o CollapseUnitGaps(s, i + 1)
  ELSE LET j == SkipSpaces(s, i)
       IN (IF IsUnitGap(s, i, j) THEN <<" ">> ELSE SubSeq(s, i, j - 1))
            \o CollapseUnitGaps(s, j)

\* C18: the segments of chunkText joined by single spaces are the text,
\* trimmed, with each run of whitespace between two units as one space; the
\* characters that are no whitespace are those of the text, in order.
C18_ChunkTextLosesNothing ==
  /\ JoinCalls(chunkText(buffer)) = CollapseUnitGaps(Trim(buffer), 1)
  /\ NonSpace(JoinCalls(chunkText(buffer))) = NonSpace(buffer)

\* C18 witness: a text of two segments or more in which whitespace between
\* units was collapsed and whitespace inside a unit was kept.
C18_Witness ==
  /\ chunks = chunkText(buffer)
  /\ Len(chunks) >= 2
  /\ Len(JoinCalls(chunks)) < Len(Trim(buffer))
  /\ \E i \in 1..Len(chunks) : \E k \in 2..Len(chunks[i]) :
       IsSpace(chunks[i][k]) /\ ~IsBoundary(chunks[i][k - 1])

\* the split units of text, trimmed, the empty ones left out
Units(text) ==
  LET raw == SplitSentences(Trim(text))
  IN SelectSeq([i \in 1..Len(raw) |-> Trim(raw[i])], LAMBDA u : u # <<>>)

\* length of the units U[s..e] joined by single spaces
RECURSIVE JoinedLen(_, _, _)
JoinedLen(U, s, e) ==
  IF e < s THEN 0
  ELSE IF e = s THEN StrLen(U[s])
  ELSE JoinedLen(U, s, e - 1) + 1 + StrLen(U[e])

\* the last unit of the longest run of units from s that, joined, is within
\* limit; s itself when U[s] alone is beyond it
GroupEnd(U, s, limit) ==
  LET ok == {e \in s..Len(U) : JoinedLen(U, s, e) <= limit}
  IN IF ok = {} THEN s ELSE CHOOSE e \in ok : \A f \in ok : f <= e

\* the limit of the k-th segment
LimitOf(k) == IF k = 1 THEN FirstChunkMax ELSE MaxChars

\* the greedy grouping of the units from s on into the k-th and later segments
RECURSIVE GreedySegments(_, _, _)
GreedySegments(U, s, k) ==
  IF s > Len(U) THEN <<>>
  ELSE LET e == GroupEnd(U, s, LimitOf(k))
       IN <<JoinCalls(SubSeq(U, s, e))>> \o GreedySegments(U, e + 1, k + 1)

\* C19: the segments of chunkText are the greedy grouping of the units:
\* each segment takes units as long as it stays within its limit,
\* firstChunkMax for the first and maxChars for the others; a segment is
\* within its limit or is one unit, whole.
C19_GreedyBoundaries ==
  LET U == Units(buffer)
      cs == chunkText(buffer)
  IN /\ cs = GreedySegments(U, 1, 1)
     /\ \A i \in 1..Len(cs) :
          \/ StrLen(cs[i]) <= LimitOf(i)
          \/ \E u \in 1..Len(U) : U[u] = cs[i]

\* C19 witness: a first segment of one unit beyond firstChunkMax, a second
\* segment of several units beyond firstChunkMax and within maxChars, and a
\* third segment.
C19_Witness ==
  /\ chunks = chunkText(buffer)
  /\ Len(chunks) >= 3
  /\ StrLen(chunks[1]) > FirstChunkMax
  /\ StrLen(chunks[2]) > FirstChunkMax /\ StrLen(chunks[2]) <= MaxChars
  /\ chunks[2] \notin {Units(buffer)[u] : u \in 1..Len(Units(buffer))}

\* C20: for every prefix P of the text, each segment of chunkText(P) but
\* the last is the segment of the same index of chunkText of the text.
C20_StableOnGrowingPrefixes ==
  \A n \in 0..Len(buffer) :
    LET cp == chunkText(SubSeq(buffer, 1, n))
        ct == chunkText(buffer)
    IN \A i \in 1..(Len(cp) - 1) : i <= Len(ct) /\ ct[i] = cp[i]

\* C20 witness: a prefix of the text has two segments or more, and its last
\* segment is not the segment of that index of the whole text.
C20_Witness ==
  \E n \in 0..Len(buffer) :
    LET cp == chunkText(SubSeq(buffer, 1, n))
    IN /\ Len(cp) >= 2
       /\ Len(chunks) > Len(cp)
       /\ chunks = chunkText(buffer)
       /\ chunks[Len(cp)] # cp[Len(cp)]

\* the texts of parts joined by a blank line
RECURSIVE JoinBlankLine(_)
JoinBlankLine(parts) ==
  IF parts = <<>> THEN <<>>
  ELSE IF Len(parts) = 1 THEN parts[1]
  ELSE parts[1] \o <<"\n", "\n">> \o JoinBlankLine(Tail(parts))

\* s read marker by marker from index i: outside a pair an opening marker
\* opens one and all else is dropped; inside, the first closing marker ends
\* the pair, whose body acc is kept, trimmed, unless it is empty; a pair
\* open at the end of s is dropped
RECURSIVE PairBodies(_, _, _, _, _)
PairBodies(s, i, inside, acc, parts) ==
  IF i > Len(s) THEN parts
  ELSE IF ~inside
    THEN PairBodies(s, i + 1, s[i] \in OpenMarkers, <<>>, parts)
    ELSE IF s[i] \in CloseMarkers
      THEN PairBodies(s, i + 1, FALSE, <<>>,
                      IF Trim(acc) # <<>> THEN Append(parts, Trim(acc))
                                          ELSE parts)
      ELSE PairBodies(s, i + 1, TRUE, Append(acc, s[i]), parts)

\* C21: extractNarration gives the trimmed bodies of the complete marker
\* pairs, in order, joined by a blank line; empty and whitespace bodies are
\* skipped, capitals match, text outside pairs and after an unclosed opening
\* marker is left out; without a complete pair the result is empty.
C21_ExtractNarration ==
  /\ extractNarration(buffer)
       = JoinBlankLine(PairBodies(buffer, 1, FALSE, <<>>, <<>>))
  /\ (\A o, c \in 1..Len(buffer) :
        ~(o < c /\ buffer[o] \in OpenMarkers /\ buffer[c] \in CloseMarkers))
       => extractNarration(buffer) = <<>>

\* C21 witness: two pairs with a body, markers in capitals and in small
\* letters.
C21_Witness ==
  /\ Len(SpeakParts(buffer)) >= 2
  /\ \E i, j, k \in 1..Len(buffer) :
       /\ buffer[i] = SpeakOpenUpper
       /\ buffer[j] = SpeakCloseUpper
       /\ buffer[k] = SpeakClose

\* C26: while flush() has not been called, the number of calls of
\* backend.synthesize is at most max(0, n - 1), n being the number of
\* segments of the buffer as it is: the last segment is held back.
C26_HeldBackLastSegment ==
  ~flushed =>
    Len(calls) <= Max(0, Len(chunkText(preprocessForSpeech(buffer))) - 1)

\* C27: backend.synthesize is invoked for the segment indices 0, 1, 2, ...
\* in this order, once each: a call is for the index emittedUpTo, which a
\* completed call advances by one and nothing decreases; while a segment is
\* in work emittedUpTo is below the end of `ready`, which is within the
\* chunking of that iteration.
C27_NoResynthesis ==
  [][/\ emittedUpTo' >= emittedUpTo
     /\ calls' # calls =>
          /\ Len(calls') = Len(calls) + 1
          /\ SubSeq(calls', 1, Len(calls)) = calls
          /\ emittedUpTo' = Len(calls)
          /\ emittedUpTo' < readyEnd' /\ readyEnd' <= Len(chunks')
          /\ calls'[Len(calls')] = chunks'[emittedUpTo' + 1]
     /\ emittedUpTo' # emittedUpTo =>
          /\ emittedUpTo' = emittedUpTo + 1
          /\ emittedUpTo' = Len(calls)
          /\ emittedUpTo' <= readyEnd /\ readyEnd <= Len(chunks)]_vars

\* C27 witness: two segments were synthesized after two pushes and the
\* producer has returned.
C27_Witness ==
  /\ Len(calls) = 2 /\ emittedUpTo = 2
  /\ prodPc = "done" /\ nPush >= 2 /\ ~aborted /\ thrown = None

\* C28: once backend.synthesize has raised, produce() has ended with the
\* error stored and the consumer is not left waiting for a buffer; no step
\* invokes backend.synthesize, enqueues a buffer or moves the producer.
C28_FailedIsTerminal ==
  [][thrown # None =>
       /\ producerDone /\ producerError # None
       /\ consPc # "waitChunk"
       /\ calls' = calls /\ enqueued' = enqueued /\ prodPc' = prodPc
       /\ producerError' = producerError]_vars

\* C28 witness: after the raise, text was pushed and flushed that holds
\* segments never passed to the backend, and the iteration has raised.
C28_Witness ==
  /\ thrown # None /\ consPc = "threw"
  /\ flushed /\ unseenChange
  /\ Len(calls) < Len(chunkText(preprocessForSpeech(buffer)))

C30_PopSignalsProducer ==
  ~(consPc = "yielded" /\ prodPc = "waitSpace" /\ Len(queue) < prefetchSize)

\* a play() call was rejected
HasFailedPlay == \E i \in 1..Len(playLog) : playLog[i] = "failed"

\* the statuses of a session that runs to its end undisturbed: none before
\* the first synthesize(), Started from then on, Stopped after it when
\* runPlaybackLoop has ended
LifecycleEvents ==
  IF ~started THEN <<>>
  ELSE IF loopPc = "done" THEN <<"Started", "Stopped">>
  ELSE <<"Started">>

C23_SynthesizeAfterAbortIsNoOp ==
  [][aborted =>
       /\ aborted'
       /\ buffer' = buffer
       /\ nPush' # nPush =>
            UNCHANGED <<events, loopPc, started, pendingChange, calls,
                        prodPc, flushed>>]_vars

\* C23 witness: synthesize() was called on a session that was aborted
\* before its first synthesize().
C23_Witness ==
  /\ aborted /\ nPush >= 2
  /\ ~started /\ loopPc = "idle" /\ buffer = <<>> /\ calls = <<>>

\* runPlaybackLoop ends in this step
LoopEnds == loopPc # "done" /\ loopPc' = "done"

\* C24 as stated: onDidEndSession is fired when the session completes
\* naturally, and at most once for the session.
C24_EndSessionOnEveryCompletion ==
  [][/\ endFires' <= 1
     /\ (LoopEnds /\ ~aborted) => endFires' = endFires + 1]_vars

\* C24: onDidEndSession is fired at most once for the session, and it is
\* fired when the session completes naturally while it is the provider's
\* active session; a session that another one has replaced ends without it.
C24_EndSessionOnce ==
  [][/\ endFires' <= 1
     /\ (LoopEnds /\ activeSession = "this") =>
          (~aborted /\ endFires' = endFires + 1)
     /\ (LoopEnds /\ activeSession # "this") => endFires' = endFires]_vars

\* C24 witness: the session has completed naturally and onDidEndSession was
\* fired for it.
C24_Witness ==
  /\ loopPc = "done" /\ endFires = 1 /\ activeSession = "none"
  /\ ~aborted /\ ~cancelled /\ events = <<"Started", "Stopped">>

\* the pending play() call, if any, is not suspended: it has returned, or
\* awaits the callback of a process that was killed
PlayReleased ==
  \/ playPc \in {"idle", "returned", "rejected"}
  \/ playPc = "playing" /\ ~playerProc

\* C25: stop() is final and releases waiters: it leaves paused false and no
\* process, a play() that waited for resume() returns, stopped stays set,
\* and from then on no play() is suspended, no process is launched and a
\* play() call returns at once.
C25_StopIsFinal ==
  [][/\ (~playerStopped /\ playerStopped') =>
          (~playerPaused' /\ ~playerProc' /\ PlayReleased')
     /\ playerStopped =>
          /\ playerStopped' /\ ~playerProc' /\ PlayReleased'
          /\ (playPc = "idle" /\ playPc' # "idle") =>
               (playPc' = "returned"
                  /\ playLog' = Append(playLog, "skipped"))]_vars

\* C25 witness: stop() has released a play() that waited for resume(), and
\* a later play() has returned without a process.
C25_Witness ==
  /\ playerStopped /\ playPc = "returned"
  /\ Len(playLog) >= 2
  /\ playLog[Len(playLog)] = "skipped"
  /\ \E i \in 1..Len(playLog) : playLog[i] = "released"

\* the consumer is not left waiting once the producer has finished: it is
\* not suspended in waitForChunk, and until the iteration has ended the
\* caller can pull or the generator can take a step
ConsumerEndsAfterProducer ==
  producerDone =>
    /\ consPc # "waitChunk"
    /\ consPc \in {"ended", "threw"} \/ CallerCanPull \/ ConsumerCanStep

\* C31 as stated: once the producer has finished, by itself, by a failure
\* or by cancellation, the pulling consumer is not left waiting, and when
\* the iteration has ended every enqueued buffer was yielded.
C31_DrainsWhateverTheEnd ==
  /\ ConsumerEndsAfterProducer
  /\ (consPc \in {"ended", "threw"} /\ ~returnedEarly) => delivered = enqueued

\* C31: once the producer has finished, by itself, by a failure or by
\* cancellation, the pulling consumer is not left waiting; when the
\* iteration has ended without cancellation every enqueued buffer was
\* yielded before the end, clean or with the stored error; after a
\* cancellation the queued buffers are dropped.
C31_NoMissedTerminalSignal ==
  /\ ConsumerEndsAfterProducer
  /\ (consPc \in {"ended", "threw"} /\ ~returnedEarly /\ ~aborted) =>
       (delivered = enqueued /\ queue = <<>>)
  /\ consPc = "threw" => producerError # None

\* C31 witness: the producer finished while the consumer waited for a
\* buffer with buffers yielded before; the consumer is woken.
C31_Witness ==
  /\ producerDone /\ consPc = "resumeChunk"
  /\ queue = <<>> /\ delivered # <<>> /\ ~aborted

\* C32: the buffer only grows, by one pushed fragment at its end per
\* push() call, whatever the producer is doing; flushed, once set, stays
\* set; a step that changes the buffer leaves flushed alone, and the step
\* that sets flushed leaves the buffer alone.
C32_BufferMonotonicity ==
  [][/\ Len(buffer') >= Len(buffer)
     /\ SubSeq(buffer', 1, Len(buffer)) = buffer
     /\ nPush' = nPush => buffer' = buffer
     /\ nPush' # nPush =>
          /\ nPush' = nPush + 1
          /\ \E text \in Fragments : buffer' = buffer \o text
          /\ flushed' = flushed
     /\ flushed => flushed'
     /\ flushed' # flushed => buffer' = buffer]_vars

\* C32 witness: fragments were pushed before and after flush() while the
\* producer was at work on a segment.
C32_Witness ==
  /\ nPush = MaxPush /\ flushed /\ pushAfterFlush
  /\ prodPc = "synth" /\ Len(buffer) >= 5

\* C33: when the caller has left the iteration early with the signal
\* aborted, the generator's finally is not stuck: the iteration has ended,
\* or the generator or the producer can take a step.
C33_EarlyExitCompletes ==
  (aborted /\ returnedEarly) =>
    (consPc = "ended" \/ ConsumerCanStep \/ ProducerCanStep)

\* C34: narration on, flush() called and seen by the producer with no push
\* after it, no cancellation, no failure, the caller pulling: the pipeline
\* is not stuck before the stream has ended, whether or not the buffer
\* holds an opening marker that is never closed.
C34_FlushedNarrationTerminates ==
  (narrationMode /\ flushed /\ ~unseenChange
     /\ ~aborted /\ thrown = None /\ ~returnedEarly) =>
    (consPc = "ended" \/ CallerCanPull \/ ConsumerCanStep \/ ProducerCanStep)

\* C35: when this session ends, by the end of its playback loop or by the
\* cancellation of its token, while it is not the provider's active
\* session, the provider's active session and paused state stay as they
\* are and onDidEndSession is not fired; onDidEndSession is fired for this
\* session, and the active session cleared by its end, only when it is the
\* active one.
C35_SessionIsolation ==
  [][/\ (activeSession # "this" /\ (LoopEnds \/ cancelled' # cancelled)) =>
          UNCHANGED <<activeSession, provPaused, endFires>>
     /\ endFires' # endFires => activeSession = "this"
     /\ activeSession # "this" => activeSession' # "this"]_vars

\* C35 witness: this session was replaced by another one, which was
\* paused; this session has ended and its token was cancelled, and the
\* other session is still the active one, paused.
C35_Witness ==
  /\ activeSession = "other" /\ provPaused
  /\ loopPc = "done" /\ cancelled /\ endFires = 0

\* the terminal statuses fired so far
TerminalEvents ==
  {i \in 1..Len(events) : events[i] \in {"Stopped", "Error"}}

\* C36: the session fires at most one terminal status, Stopped or Error.
C36_AtMostOneTerminalEvent == Cardinality(TerminalEvents) <= 1

\* C37: a session that has fired Started and whose playback loop has ended,
\* however it ended, has fired a terminal status, Stopped or Error.
C37_StartedSessionEndsWithTerminalEvent ==
  (started /\ loopPc = "done") => TerminalEvents # {}

====
